---- MODULE Spec2Model ----
(***************************************************************************)
(* Model of opa_rest_client/opa_client_apis.py: the watch subsystem        *)
(* (read_chunks, process_watch_stream, create_watch, destroy_watch) and    *)
(* OPAClient.create_policy.                                                *)
(*                                                                         *)
(* Bytes are numbers 0..255, a bytes object is a sequence of bytes, a str  *)
(* is a sequence of code points.  A text file is a sequence of bytes.      *)
(***************************************************************************)
EXTENDS Integers, Sequences, FiniteSets, TLC

VARIABLES
    \* ---- caller side of the watch subsystem
    nwatch,      \* number of create_watch calls made so far (handles 1..nwatch)
    handle,      \* handle[w]: the OpaWatch built by create_watch, or NoHandle
    success,     \* success[w]: resp_obj.success returned by create_watch
    caller,      \* what the calling thread is doing: idle or blocked in join
    signalled,   \* signalled[w]: proc.terminate() was called on the handle
    returned,    \* returned[w]: a destroy_watch(handle w) call has returned
    \* ---- the worker processes
    proc,        \* proc[w]: "unborn", "running" or "exited"
    exitWhy,     \* exitWhy[w]: why the process ended
    sigterm,     \* sigterm[w]: a SIGTERM is pending for the process
    wpc,         \* wpc[w]: position of the worker in process_watch_stream
    ending,      \* ending[w]: how the transport iterator ended, or "open"
    buf,         \* buf[w]: read_chunks' accumulation buffer (a str)
    yielded,     \* yielded[w]: the Records read_chunks has yielded, in order
    consumed,    \* consumed[w]: the chunks read_chunks took from the transport
    raised,      \* raised[w]: the exception that escaped read_chunks, or "none"
    fopen,       \* fopen[w]: the worker holds the sink open
    fpos,        \* fpos[w]: the worker's file offset in the sink
    pending,     \* pending[w]: bytes written with f.write and not yet flushed
    file,        \* contents of the sink file watch_stream.txt
    \* ---- OPAClient.create_policy
    base,        \* OPAClient.base
    call,        \* the last create_policy call: its inputs and the response
    outcome,     \* what that call did: returned a value or raised
    ncalls,      \* number of create_policy calls made
    httpPuts     \* URLs of the PUT requests issued, in order

vars == <<nwatch, handle, success, caller, signalled, returned,
          proc, exitWhy, sigterm, wpc, ending, buf, yielded, consumed, raised,
          fopen, fpos, pending, file,
          base, call, outcome, ncalls, httpPuts>>

watchVars == <<nwatch, handle, success, caller, signalled, returned,
               proc, exitWhy, sigterm, wpc, ending, buf, yielded, consumed,
               raised, fopen, fpos, pending, file>>

policyVars == <<base, call, outcome, ncalls, httpPuts>>

----------------------------------------------------------------------------
(* Bounds *)

MaxWatches == 2        \* create_watch calls in a behaviour
MaxChunks == 3         \* chunks one transport delivers (single-worker runs)
MaxCalls == 1          \* create_policy calls in a behaviour
MaxNameLen == 2        \* length of the generated policy names

W == 1 .. MaxWatches

----------------------------------------------------------------------------
(* Bytes, text and UTF-8 *)

LF == 10

\* chunk.endswith(b"\n")
EndsWithLF(chunk) == Len(chunk) > 0 /\ chunk[Len(chunk)] = LF

\* bytes.decode("utf-8") for one- and two-byte forms (every byte the model
\* draws is below 0xE0).  ok = FALSE stands for UnicodeDecodeError.
RECURSIVE Decode(_)
Decode(b) ==
    IF b = <<>> THEN [ok |-> TRUE, text |-> <<>>]
    ELSE IF b[1] < 128
      THEN LET r == Decode(Tail(b))
           IN  [ok |-> r.ok, text |-> <<b[1]>> \o r.text]
    ELSE IF b[1] \in 194 .. 223 /\ Len(b) >= 2 /\ b[2] \in 128 .. 191
      THEN LET r == Decode(Tail(Tail(b)))
           IN  [ok |-> r.ok,
                text |-> <<(b[1] - 192) * 64 + (b[2] - 128)>> \o r.text]
    ELSE [ok |-> FALSE, text |-> <<>>]

\* str.encode("utf-8") for code points below 0x800
RECURSIVE Encode(_)
Encode(s) ==
    IF s = <<>> THEN <<>>
    ELSE IF s[1] < 128 THEN <<s[1]>> \o Encode(Tail(s))
    ELSE <<192 + (s[1] \div 64), 128 + (s[1] % 64)>> \o Encode(Tail(s))

\* the concatenation of a sequence of sequences
RECURSIVE Concat(_)
Concat(ss) == IF ss = <<>> THEN <<>> ELSE ss[1] \o Concat(Tail(ss))

\* The chunks a transport may deliver: "\n", "a\n", "b\n", "e-acute\n", a
\* chunk holding two lines, chunks with no trailing line-feed ("a", "b", the
\* lead byte of e-acute alone), the rest of that character with a line-feed,
\* and a chunk that ends in a line-feed and is not valid UTF-8.
Chunks ==
    { <<10>>, <<97, 10>>, <<98, 10>>, <<195, 169, 10>>, <<97, 10, 98, 10>>,
      <<97>>, <<98>>, <<195>>, <<169, 10>>, <<195, 10>> }

\* The chunks a transport that has delivered `sofar` may deliver next, when
\* it delivers any chunk of Chunks, at most MaxChunks of them.
StreamNext(sofar) == IF Len(sofar) < MaxChunks THEN Chunks ELSE {}

\* The streams drawn when several watches run at once: "a\n", "a", and the
\* empty stream.
WatchStreams == { << <<97, 10>> >>, << <<97>> >> }

\* The chunks a transport that has delivered `sofar` may deliver next, when
\* its stream is one of WatchStreams.
WatchNext(sofar) ==
    { s[Len(sofar) + 1] :
        s \in { t \in WatchStreams :
                   /\ Len(t) > Len(sofar)
                   /\ SubSeq(t, 1, Len(sofar)) = sofar } }

\* How a transport iterator can end: ChunkedEncodingError, exhaustion
\* (StopIteration), or any other exception.
Endings == {"closed", "eof", "error"}

\* The endings drawn when several watches run at once.
WatchEndings == {"closed", "error"}

----------------------------------------------------------------------------
(* read_chunks *)

\* A read_chunks that appends the chunk's bytes undecoded.
BufAppendDecoded_NoDecode(b, chunk) == [raise |-> "none", buf |-> b \o chunk]

\* buf += chunk.decode("utf-8"): str + str
BufAppendDecoded(b, chunk) ==
    LET d == Decode(chunk)
    IN  IF d.ok THEN [raise |-> "none", buf |-> b \o d.text]
        ELSE [raise |-> "UnicodeDecodeError", buf |-> b]

\* buf += chunk with buf a str and chunk a bytes object: Python 3 raises
\* TypeError (can only concatenate str (not "bytes") to str); buf is unchanged.
BufAppendRaw(b, chunk) == [raise |-> "TypeError", buf |-> b]

\* One pass of the for loop body over a chunk taken from the transport.
\* yield = TRUE: the generator suspends at `yield buf`.
ChunkStep(b, chunk) ==
    IF EndsWithLF(chunk)
    THEN LET r == BufAppendDecoded(b, chunk)
         IN  [raise |-> r.raise, buf |-> r.buf, yield |-> r.raise = "none"]
    ELSE LET r == BufAppendRaw(b, chunk)
         IN  [raise |-> r.raise, buf |-> r.buf, yield |-> FALSE]

\* A read_chunks without the except clause.
EndRaises_NoExcept(e) == IF e = "eof" THEN "none" ELSE "OtherError"

\* What escapes read_chunks when the transport iterator ends with e:
\* ChunkedEncodingError is swallowed, exhaustion ends the loop, anything else
\* propagates.
EndRaises(e) == IF e \in {"closed", "eof"} THEN "none" ELSE "OtherError"

\* The Records read_chunks yields when the transport iterator ends while the
\* buffer holds b: none, the except clause only passes.
EndYields(b) == <<>>

----------------------------------------------------------------------------
(* The sink file *)

Max(a, b) == IF a >= b THEN a ELSE b

\* The file after `data` is written at offset pos (a hole reads as zeros).
WriteAt(f, pos, data) ==
    [i \in 1 .. Max(Len(f), pos + Len(data)) |->
        IF i > pos /\ i <= pos + Len(data) THEN data[i - pos]
        ELSE IF i <= Len(f) THEN f[i] ELSE 0]

----------------------------------------------------------------------------
(* process_watch_stream, run by worker process w *)

Running(w) == proc[w] = "running"

\* The process ends and its descriptors are closed.
ExitWorker(w, why) ==
    /\ proc' = [proc EXCEPT ![w] = "exited"]
    /\ exitWhy' = [exitWhy EXCEPT ![w] = why]
    /\ wpc' = [wpc EXCEPT ![w] = "done"]
    /\ fopen' = [fopen EXCEPT ![w] = FALSE]

\* open("watch_stream.txt", "wb+"); f.seek(0): the file is created or
\* truncated and the offset is zero.
OpenSink(w) ==
    /\ Running(w) /\ wpc[w] = "start"
    /\ file' = <<>>
    /\ fopen' = [fopen EXCEPT ![w] = TRUE]
    /\ fpos' = [fpos EXCEPT ![w] = 0]
    /\ wpc' = [wpc EXCEPT ![w] = "fetch"]
    /\ UNCHANGED <<nwatch, handle, success, caller, signalled, returned,
                   proc, exitWhy, sigterm, ending, buf, yielded, consumed,
                   raised, pending>>
    /\ UNCHANGED policyVars

\* The for loop of process_watch_stream asks read_chunks for the next Record
\* and the transport delivers a chunk drawn from C.
Fetch(w, C) ==
    /\ Running(w) /\ wpc[w] = "fetch" /\ ending[w] = "open"
    /\ \E chunk \in C :
         LET r == ChunkStep(buf[w], chunk)
         IN  /\ consumed' = [consumed EXCEPT ![w] = Append(@, chunk)]
             /\ buf' = [buf EXCEPT ![w] = r.buf]
             /\ raised' = [raised EXCEPT ![w] = r.raise]
             /\ IF r.raise # "none"
                THEN /\ UNCHANGED yielded
                     /\ ExitWorker(w, r.raise)
                ELSE IF r.yield
                THEN /\ yielded' = [yielded EXCEPT ![w] = Append(@, r.buf)]
                     /\ wpc' = [wpc EXCEPT ![w] = "yielded"]
                     /\ UNCHANGED <<proc, exitWhy, fopen>>
                ELSE UNCHANGED <<yielded, wpc, proc, exitWhy, fopen>>
    /\ UNCHANGED <<nwatch, handle, success, caller, signalled, returned,
                   sigterm, ending, fpos, pending, file>>
    /\ UNCHANGED policyVars

\* The transport iterator ends, in one of the ways of E, instead of
\* delivering a chunk.
TransportEnd(w, E) ==
    /\ Running(w) /\ wpc[w] = "fetch" /\ ending[w] = "open"
    /\ \E e \in E :
         /\ ending' = [ending EXCEPT ![w] = e]
         /\ raised' = [raised EXCEPT ![w] = EndRaises(e)]
         /\ yielded' = [yielded EXCEPT ![w] = @ \o EndYields(buf[w])]
         /\ ExitWorker(w, IF EndRaises(e) = "none" THEN "normal"
                          ELSE EndRaises(e))
    /\ UNCHANGED <<nwatch, handle, success, caller, signalled, returned,
                   sigterm, buf, consumed, fpos, pending, file>>
    /\ UNCHANGED policyVars

\* f.write(buf.encode("utf-8")): the bytes go to the file object's buffer.
WriteRecord(w) ==
    /\ Running(w) /\ wpc[w] = "yielded"
    /\ pending' = [pending EXCEPT ![w] = @ \o Encode(buf[w])]
    /\ wpc' = [wpc EXCEPT ![w] = "written"]
    /\ UNCHANGED <<nwatch, handle, success, caller, signalled, returned,
                   proc, exitWhy, sigterm, ending, buf, yielded, consumed,
                   raised, fopen, fpos, file>>
    /\ UNCHANGED policyVars

\* A writer that seeks to offset zero before every write.
Flushed_AtZero(f, pos, data) == WriteAt(f, 0, data)

\* The file after f.flush() by a worker at offset pos with `data` buffered.
Flushed(f, pos, data) == WriteAt(f, pos, data)

\* f.flush(), then the for loop resumes the generator, which runs buf = ""
\* and goes back to the transport.
FlushRecord(w) ==
    /\ Running(w) /\ wpc[w] = "written"
    /\ file' = Flushed(file, fpos[w], pending[w])
    /\ fpos' = [fpos EXCEPT ![w] = @ + Len(pending[w])]
    /\ pending' = [pending EXCEPT ![w] = <<>>]
    /\ buf' = [buf EXCEPT ![w] = <<>>]
    /\ wpc' = [wpc EXCEPT ![w] = "fetch"]
    /\ UNCHANGED <<nwatch, handle, success, caller, signalled, returned,
                   proc, exitWhy, sigterm, ending, yielded, consumed, raised,
                   fopen>>
    /\ UNCHANGED policyVars

\* A pending SIGTERM ends the process wherever it is (the default
\* disposition: no Python-level cleanup, unflushed bytes are lost).
Killed(w) ==
    /\ Running(w) /\ sigterm[w]
    /\ sigterm' = [sigterm EXCEPT ![w] = FALSE]
    /\ pending' = [pending EXCEPT ![w] = <<>>]
    /\ ExitWorker(w, "SIGTERM")
    /\ UNCHANGED <<nwatch, handle, success, caller, signalled, returned,
                   ending, buf, yielded, consumed, raised, fpos, file>>
    /\ UNCHANGED policyVars

----------------------------------------------------------------------------
(* create_watch and destroy_watch, run by the calling thread *)

Urls == {"http://localhost:8181/v1/data/x"}

NoHandle == [url |-> "", pid |-> 0]

Idle == [op |-> "idle", w |-> 0]

\* OpaWatch(orig_url, p, p.pid)
OpaWatch(url, w) == [url |-> url, pid |-> w]

\* Whether create_watch starts the worker process, given resp_obj.success:
\* p.start() is unconditional.
StartsWorker(ok) == TRUE

\* create_watch(url): the streaming GET answers with success flag ok; the
\* Process is built and started, and the handle is returned with the flag.
CreateWatch(url, ok) ==
    /\ caller = Idle /\ nwatch < MaxWatches
    /\ LET w == nwatch + 1
       IN  /\ nwatch' = w
           /\ success' = [success EXCEPT ![w] = ok]
           /\ handle' = [handle EXCEPT ![w] = OpaWatch(url, w)]
           /\ IF StartsWorker(ok)
              THEN /\ proc' = [proc EXCEPT ![w] = "running"]
                   /\ wpc' = [wpc EXCEPT ![w] = "start"]
              ELSE UNCHANGED <<proc, wpc>>
    /\ UNCHANGED <<caller, signalled, returned, exitWhy, sigterm, ending, buf,
                   yielded, consumed, raised, fopen, fpos, pending, file>>
    /\ UNCHANGED policyVars

\* opa_watch_cls.proc.terminate(): SIGTERM is sent to a live process; the
\* caller goes on to proc.join().
DestroyTerminate(w) ==
    /\ caller = Idle /\ w <= nwatch /\ proc[w] # "unborn"
    /\ signalled' = [signalled EXCEPT ![w] = TRUE]
    /\ sigterm' = [sigterm EXCEPT ![w] = Running(w)]
    /\ caller' = [op |-> "join", w |-> w]
    /\ UNCHANGED <<nwatch, handle, success, returned, proc, exitWhy, wpc,
                   ending, buf, yielded, consumed, raised, fopen, fpos,
                   pending, file>>
    /\ UNCHANGED policyVars

\* A join that does not wait.
JoinReturns_NoWait(w) == TRUE

\* proc.join() returns once the process has exited.
JoinReturns(w) == proc[w] = "exited"

\* opa_watch_cls.proc.join() returns and with it destroy_watch.
DestroyJoin(w) ==
    /\ caller = [op |-> "join", w |-> w]
    /\ JoinReturns(w)
    /\ returned' = [returned EXCEPT ![w] = TRUE]
    /\ caller' = Idle
    /\ UNCHANGED <<nwatch, handle, success, signalled, proc, exitWhy, sigterm,
                   wpc, ending, buf, yielded, consumed, raised, fopen, fpos,
                   pending, file>>
    /\ UNCHANGED policyVars

----------------------------------------------------------------------------
(* OPAClient.create_policy *)

Range(f) == {f[i] : i \in DOMAIN f}

\* Sequences over S of length at most n
RECURSIVE SeqsUpTo(_, _)
SeqsUpTo(S, n) ==
    IF n = 0 THEN {<<>>}
    ELSE LET shorter == SeqsUpTo(S, n - 1)
         IN  shorter \cup {Append(s, c) : s \in shorter, c \in S}

\* A str is a sequence of one-character strings.
Letters == {"a", "b", "c"}

NameChars == {"a", "1", "_", "/"}

\* The policy names tried: every short string over NameChars and the names
\* "a/b_c", "a/1b", "a.b", "a_1/b".
Names ==
    SeqsUpTo(NameChars, MaxNameLen)
      \cup { <<"a", "/", "b", "_", "c">>, <<"a", "/", "1", "b">>,
             <<"a", ".", "b">>, <<"a", "_", "1", "/", "b">> }

\* name.split('/')
RECURSIVE SplitAcc(_, _)
SplitAcc(s, cur) ==
    IF s = <<>> THEN <<cur>>
    ELSE IF s[1] = "/" THEN <<cur>> \o SplitAcc(Tail(s), <<>>)
    ELSE SplitAcc(Tail(s), Append(cur, s[1]))

Split(name) == SplitAcc(name, <<>>)

\* x.isalpha(): at least one character and all of them letters
IsAlpha(x) == Len(x) > 0 /\ \A i \in 1 .. Len(x) : x[i] \in Letters

\* x.isalpha() or '_' in x
ValidWord(x) == IsAlpha(x) \/ "_" \in Range(x)

\* validate(): TRUE when it returns, FALSE when it raises OPAValidationError
Validate(name) ==
    LET words == Split(name)
        valid_words == SelectSeq(words, ValidWord)
    IN  Len(words) = Len(valid_words)

NAME_ERROR == "only slashes, underscores and letters are acceptable in policy name"

INVALID_REGO_ERROR == "INVALID_REGO_ERROR"

\* OPAClient.__init__: api_version "" stands for an absent or empty argument.
Servers == {"localhost"}
ApiVersions == {"", "v0"}
ClientBase(server, port, api_version) ==
    <<"http://", server, ":", port, "/",
      IF api_version = "" THEN "v1" ELSE api_version, "/">>

\* policy_url = self.base + 'policies/' + name
PolicyUrl(b, name) == b \o <<"policies/">> \o name

\* get_policy_blob for a str that names no file: policy.encode()
GetPolicyBlob(policy) == [bytes |-> policy]

RegoInputs == {"package appguard"}

\* The responses of RestClientApis.http_put_and_check_success: http_status
\* and json_body (None, or a dict given as a function from keys to values).
Statuses == {"OK", "BAD_REQUEST", "INTERNAL_SERVER_ERROR"}

NoneBody == [none |-> TRUE, dict |-> [k \in {} |-> ""]]
Dict(d) == [none |-> FALSE, dict |-> d]
Bodies ==
    { NoneBody,
      Dict([k \in {} |-> ""]),
      Dict([k \in {"code", "errors"} |->
              IF k = "code" THEN INVALID_REGO_ERROR ELSE "rego_parse_error"]),
      Dict([k \in {"code"} |-> INVALID_REGO_ERROR]),
      Dict([k \in {"code", "errors"} |->
              IF k = "code" THEN "internal_error" ELSE "storage_error"]),
      Dict([k \in {"message"} |-> "not found"]) }

\* d.get(key, default)
Get(d, key, default) == IF key \in DOMAIN d THEN d[key] ELSE default

\* not rest_json
Falsy(body) == body.none \/ DOMAIN body.dict = {}

NoPolicy == [policy_name |-> <<>>, policy_path |-> <<>>,
             rego_contents |-> [bytes |-> ""]]

Raise(exc, msg) == [kind |-> exc, msg |-> msg, policy |-> NoPolicy]
Return(kind, pol) == [kind |-> kind, msg |-> "", policy |-> pol]

\* A check of the status alone.
IsRegoRejection_AnyBadRequest(status, body) == status = "BAD_REQUEST"

\* rest_response.http_status == HTTPStatus.BAD_REQUEST and
\* rest_json.get('code') == INVALID_REGO_ERROR, evaluated on a dict
IsRegoRejection(status, body) ==
    status = "BAD_REQUEST" /\ Get(body.dict, "code", "None") = INVALID_REGO_ERROR

\* The part of create_policy after the PUT: what it raises or returns.
AfterPut(b, name, rego, status, body) ==
    IF status = "BAD_REQUEST" /\ body.none
      THEN Raise("AttributeError", "'NoneType' object has no attribute 'get'")
    ELSE IF IsRegoRejection(status, body)
      THEN Raise("OPAValidationError",
                 Get(body.dict, "errors", "Invalid or Empty REGO"))
    ELSE IF status = "OK" /\ Falsy(body)
      THEN Return("Policy", [policy_name |-> name,
                             policy_path |-> PolicyUrl(b, name),
                             rego_contents |-> GetPolicyBlob(rego)])
    ELSE Return("None", NoPolicy)

NoCall == [name |-> <<>>, rego |-> "", status |-> "", body |-> NoneBody,
           putsBefore |-> 0]

\* create_policy(name, rego): validate, then PUT to the policy URL and turn
\* the response (status, body) into a result.
CreatePolicy(name, rego, status, body) ==
    /\ ncalls < MaxCalls
    /\ ncalls' = ncalls + 1
    /\ IF Validate(name)
       THEN /\ httpPuts' = Append(httpPuts, PolicyUrl(base, name))
            /\ call' = [name |-> name, rego |-> rego, status |-> status,
                        body |-> body, putsBefore |-> Len(httpPuts)]
            /\ outcome' = AfterPut(base, name, rego, status, body)
       ELSE /\ UNCHANGED httpPuts
            /\ call' = [name |-> name, rego |-> rego, status |-> "",
                        body |-> NoneBody, putsBefore |-> Len(httpPuts)]
            /\ outcome' = Raise("OPAValidationError", NAME_ERROR)
    /\ UNCHANGED base
    /\ UNCHANGED watchVars

----------------------------------------------------------------------------
(* Initial states and specifications *)

InitWatchVars ==
    /\ nwatch = 0
    /\ handle = [w \in W |-> NoHandle]
    /\ success = [w \in W |-> FALSE]
    /\ caller = Idle
    /\ signalled = [w \in W |-> FALSE]
    /\ returned = [w \in W |-> FALSE]
    /\ proc = [w \in W |-> "unborn"]
    /\ exitWhy = [w \in W |-> "none"]
    /\ sigterm = [w \in W |-> FALSE]
    /\ wpc = [w \in W |-> "unborn"]
    /\ ending = [w \in W |-> "open"]
    /\ buf = [w \in W |-> <<>>]
    /\ yielded = [w \in W |-> <<>>]
    /\ consumed = [w \in W |-> <<>>]
    /\ raised = [w \in W |-> "none"]
    /\ fopen = [w \in W |-> FALSE]
    /\ fpos = [w \in W |-> 0]
    /\ pending = [w \in W |-> <<>>]
    /\ file = <<>>

InitPolicyVars ==
    /\ base \in {ClientBase(s, "8181", v) : s \in Servers, v \in ApiVersions}
    /\ call = NoCall
    /\ outcome = Return("idle", NoPolicy)
    /\ ncalls = 0
    /\ httpPuts = <<>>

\* No watch exists and no policy call was made.
Init == InitWatchVars /\ InitPolicyVars

\* The watch subsystem: any interleaving of create_watch and destroy_watch
\* calls by one calling thread with the steps of the worker processes.
NextWatch ==
    \/ \E url \in Urls, ok \in BOOLEAN : CreateWatch(url, ok)
    \/ \E w \in W : DestroyTerminate(w)
    \/ \E w \in W : DestroyJoin(w)
    \/ \E w \in W : OpenSink(w)
    \/ \E w \in W : Fetch(w, WatchNext(consumed[w]))
    \/ \E w \in W : TransportEnd(w, WatchEndings)
    \/ \E w \in W : WriteRecord(w)
    \/ \E w \in W : FlushRecord(w)
    \/ \E w \in W : Killed(w)

Spec == Init /\ [][NextWatch]_vars

\* One worker process running process_watch_stream(resp) on its own: the
\* state right after create_watch started it.
InitStream ==
    /\ InitPolicyVars
    /\ nwatch = 1
    /\ \E url \in Urls :
         handle = [w \in W |-> IF w = 1 THEN OpaWatch(url, 1) ELSE NoHandle]
    /\ success = [w \in W |-> w = 1]
    /\ caller = Idle
    /\ signalled = [w \in W |-> FALSE]
    /\ returned = [w \in W |-> FALSE]
    /\ proc = [w \in W |-> IF w = 1 THEN "running" ELSE "unborn"]
    /\ exitWhy = [w \in W |-> "none"]
    /\ sigterm = [w \in W |-> FALSE]
    /\ wpc = [w \in W |-> IF w = 1 THEN "start" ELSE "unborn"]
    /\ ending = [w \in W |-> "open"]
    /\ buf = [w \in W |-> <<>>]
    /\ yielded = [w \in W |-> <<>>]
    /\ consumed = [w \in W |-> <<>>]
    /\ raised = [w \in W |-> "none"]
    /\ fopen = [w \in W |-> FALSE]
    /\ fpos = [w \in W |-> 0]
    /\ pending = [w \in W |-> <<>>]
    /\ file \in {<<>>, <<98, 10>>}

NextStream ==
    \/ OpenSink(1)
    \/ Fetch(1, StreamNext(consumed[1]))
    \/ TransportEnd(1, Endings)
    \/ WriteRecord(1)
    \/ FlushRecord(1)

SpecStream == InitStream /\ [][NextStream]_vars

\* Calls of create_policy on one client.
NextPolicy ==
    \E name \in Names, rego \in RegoInputs, status \in Statuses,
       body \in Bodies : CreatePolicy(name, rego, status, body)

SpecPolicy == Init /\ [][NextPolicy]_vars

----------------------------------------------------------------------------
(* Properties of read_chunks and process_watch_stream (SpecStream) *)

Last(s) == s[Len(s)]

\* Index of the first chunk of the group that chunk i of c closes: the chunks
\* before it that do not end in a line-feed belong to the same Record.
RECURSIVE GroupStart(_, _)
GroupStart(c, i) ==
    IF i > 1 /\ ~EndsWithLF(c[i - 1]) THEN GroupStart(c, i - 1) ELSE i

LastGroup(c) == SubSeq(c, GroupStart(c, Len(c)), Len(c))

AllEndInLF(c) == \A i \in 1 .. Len(c) : EndsWithLF(c[i])

AllDecode(c) == \A i \in 1 .. Len(c) : Decode(c[i]).ok

\* The generator is not suspended inside an iteration: it waits for the
\* transport or has finished.
BetweenChunks(w) == wpc[w] \in {"fetch", "done"}

\* C1: a Record split across chunks is reassembled.  While the stream is
\* open, a chunk with no trailing line-feed is taken without an error and
\* read_chunks goes on to the next chunk; when the chunk that ends in a
\* line-feed has arrived, the last Record yielded is the decoded concatenation
\* of the chunks of the group.
C1_SplitRecordReassembled ==
    LET c == consumed[1]
    IN  (c # <<>> /\ ending[1] = "open") =>
          IF ~EndsWithLF(Last(c))
          THEN raised[1] = "none" /\ wpc[1] = "fetch"
          ELSE Decode(Concat(LastGroup(c))).ok =>
                 /\ raised[1] = "none"
                 /\ yielded[1] # <<>>
                 /\ Last(yielded[1]) = Decode(Concat(LastGroup(c))).text

\* The Records and the buffer state that chunks c, each ending in a
\* line-feed, must have produced.
OneRecordPerChunk(c) ==
    /\ raised[1] \in {"none", "OtherError"}
    /\ Len(yielded[1]) = Len(c)
    /\ \A i \in 1 .. Len(c) : yielded[1][i] = Decode(c[i]).text
    /\ BetweenChunks(1) => buf[1] = <<>>

\* C2 as stated: whenever every chunk consumed ends in a line-feed, one
\* Record per chunk was yielded, in order, each the chunk's decoded text, and
\* the buffer is empty once the generator has moved past the yield.
C2_OneRecordPerChunk ==
    AllEndInLF(consumed[1]) => OneRecordPerChunk(consumed[1])

\* C2 amended: the same, for chunks that each end in a line-feed and are
\* each valid UTF-8.
C2_OneRecordPerValidChunk ==
    (AllEndInLF(consumed[1]) /\ AllDecode(consumed[1]))
      => OneRecordPerChunk(consumed[1])

\* Three chunks ending in a line-feed were consumed and the Records "a\n",
\* "e-acute\n" and "\n" were yielded in that order.
C2_Witness ==
    /\ consumed[1] = << <<97, 10>>, <<195, 169, 10>>, <<10>> >>
    /\ yielded[1] = << <<97, 10>>, <<233, 10>>, <<10>> >>
    /\ wpc[1] = "fetch" /\ buf[1] = <<>>

\* C6: the step in which the transport raises ChunkedEncodingError ends
\* read_chunks with no exception, changes none of the Records yielded and
\* yields nothing from the buffer; the worker leaves its loop normally.
C6_ClosedEndsQuietly ==
    [][(ending[1] = "open" /\ ending'[1] = "closed") =>
         /\ raised'[1] = "none"
         /\ yielded'[1] = yielded[1]
         /\ exitWhy'[1] = "normal"]_vars

\* The connection was closed after two Records had been yielded.
C6_Witness ==
    /\ ending[1] = "closed"
    /\ Len(yielded[1]) = 2
    /\ raised[1] = "none"

\* C9: from the moment the worker has opened the sink, the sink holds the
\* encoded Records yielded so far, in order, except possibly the last one;
\* whenever the next Record is requested every Record yielded is in the sink.
C9_SinkIsPrefixOfRecords ==
    wpc[1] # "start" =>
      \E k \in 0 .. Len(yielded[1]) :
        /\ file = Encode(Concat(SubSeq(yielded[1], 1, k)))
        /\ k >= Len(yielded[1]) - 1
        /\ BetweenChunks(1) => k = Len(yielded[1])

\* Two different Records are in the sink in the order yielded while a third
\* has been yielded and not yet written.
C9_Witness ==
    /\ Len(yielded[1]) = 3
    /\ yielded[1][1] # yielded[1][2]
    /\ wpc[1] = "yielded"
    /\ file = Encode(yielded[1][1] \o yielded[1][2])
    /\ file # <<>>

\* C10: while the stream is open and read_chunks is between chunks, the
\* Records yielded followed by the buffer are, encoded, exactly the bytes of
\* the chunks consumed (stated for consumed bytes that are valid UTF-8).
C10_NoByteLost ==
    (BetweenChunks(1) /\ ending[1] = "open"
       /\ Decode(Concat(consumed[1])).ok)
      => Encode(Concat(yielded[1]) \o buf[1]) = Concat(consumed[1])

----------------------------------------------------------------------------
(* Properties of create_watch and destroy_watch (Spec) *)

\* C3: when destroy_watch has returned for a handle, terminate() was called
\* on it and its worker process has exited; the caller is in join only after
\* terminate().
C3_DestroyWaitsForExit ==
    /\ \A w \in W : returned[w] => (signalled[w] /\ proc[w] = "exited")
    /\ caller.op = "join" => signalled[caller.w]

\* destroy_watch returned for a worker that was streaming and died of the
\* SIGTERM.
C3_Witness ==
    \E w \in W :
      /\ returned[w]
      /\ exitWhy[w] = "SIGTERM"
      /\ yielded[w] # <<>>

\* C4: a worker process was started, and a handle bound to it returned, only
\* for a watch whose initial request succeeded.
C4_WorkerOnlyOnSuccess ==
    \A w \in W : (proc[w] # "unborn" \/ handle[w] # NoHandle) => success[w]

\* C8: at most one running worker holds the sink open.
C8_SinkHasOneWriter ==
    Cardinality({w \in W : Running(w) /\ fopen[w]}) <= 1

----------------------------------------------------------------------------
(* Properties of create_policy (SpecPolicy) *)

\* Every '/'-separated segment consists of letters and underscores only.
WellFormedName(name) ==
    \A i \in 1 .. Len(Split(name)) :
      \A j \in 1 .. Len(Split(name)[i]) :
        Split(name)[i][j] \in Letters \cup {"_"}

\* C5: a call whose name has a segment with a character that is neither a
\* letter nor an underscore raised OPAValidationError and issued no request.
C5_BadNameRejected ==
    (ncalls > 0 /\ ~WellFormedName(call.name)) =>
      /\ outcome = Raise("OPAValidationError", NAME_ERROR)
      /\ Len(httpPuts) = call.putsBefore

\* C7: for a call that passed validation: a bad-request response with the
\* invalid-Rego code raised OPAValidationError, carrying the errors the
\* server reported; an OK response with an empty body returned a Policy built
\* from the input name and base + 'policies/' + name; any other bad-request
\* response raised no OPAValidationError.
C7_PolicyOutcome ==
    (ncalls > 0 /\ Validate(call.name)) =>
      /\ (call.status = "BAD_REQUEST" /\ ~call.body.none
            /\ Get(call.body.dict, "code", "None") = INVALID_REGO_ERROR)
           => /\ outcome.kind = "OPAValidationError"
              /\ "errors" \in DOMAIN call.body.dict
                   => outcome.msg = call.body.dict["errors"]
      /\ (call.status = "OK" /\ Falsy(call.body))
           => /\ outcome.kind = "Policy"
              /\ outcome.policy.policy_name = call.name
              /\ outcome.policy.policy_path
                   = base \o <<"policies/">> \o call.name
              /\ Last(httpPuts) = outcome.policy.policy_path
      /\ (call.status = "BAD_REQUEST"
            /\ (call.body.none
                 \/ Get(call.body.dict, "code", "None") # INVALID_REGO_ERROR))
           => outcome.kind # "OPAValidationError"

\* The server rejected the Rego of policy "a/b_c" and the call raised
\* OPAValidationError with the server's errors.
C7_Witness ==
    /\ call.name = <<"a", "/", "b", "_", "c">>
    /\ call.status = "BAD_REQUEST"
    /\ outcome = Raise("OPAValidationError", "rego_parse_error")
    /\ Len(httpPuts) = 1

====
